---- MODULE Spec2Model ----
(***************************************************************************)
(* Tree Cost Calculator (src/src/App.tsx): the pricing arithmetic of the   *)
(* CalculatorView, the quote history kept through useLocalStorage, the     *)
(* settings edits of the SettingsView and the confirmed delete of the      *)
(* HistoryView, as one state machine.  Every event handler of the page is  *)
(* one atomic action: the page is single-threaded and alert/confirm block. *)
(*                                                                         *)
(* Money is kept exact.  The code works in IEEE doubles; here an amount a  *)
(* is held as the integer a * Denominator, which is exact for the integer  *)
(* measurements, prices and percentages the model draws its inputs from.   *)
(***************************************************************************)
EXTENDS Integers, Sequences, FiniteSets, TLC

VARIABLES
    storage,          \* window.localStorage: key -> raw item
    mem,              \* storedValue of each useLocalStorage hook now mounted
    activeTab,        \* App's activeTab state
    circumference,    \* CalculatorView form state (text of the input)
    height,           \* CalculatorView form state (text of the input)
    trees,            \* CalculatorView form state: TreeItem[]
    discountPercent,  \* CalculatorView form state (text of the input)
    called,           \* the call of saveQuote or deleteQuote the last event made, if any
    nextId,           \* crypto.randomUUID: quote identifiers handed out so far, plus one
    now,              \* the clock read by new Date()
    edits,            \* number of settings edits made so far
    failures,         \* number of writes localStorage.setItem has rejected so far
    crashed           \* a render threw: React unmounted the page

vars == <<storage, mem, activeTab, circumference, height, trees, discountPercent,
          called, nextId, now, edits, failures, crashed>>

-----------------------------------------------------------------------------
(* Bounds of the model *)

\* quotes saved in one run
MaxId == 2
\* length of the tree list being composed
MaxTrees == 1
\* settings edits in one run
MaxEdits == 3
\* writes localStorage.setItem rejects in one run
MaxFailures == 1

-----------------------------------------------------------------------------
(* Values *)

\* 12.56 = 1256 / 100, the divisor of the volume formula
VolumeDivisorHundredths == 1256

\* amounts are integers over this denominator: 12.56, then two divisions by 100
\* (the discount percent and the tax percent)
Denominator == VolumeDivisorHundredths * 100 * 100

Keys == {"startingFee", "pricePerCubicFoot", "taxRate", "showTaxCalculator",
         "showDiscount", "defaultDiscountPercent", "quoteHistory",
         "hasCompletedOnboarding"}

\* A JavaScript value, as far as the slots can hold one: t is its type.
JNum(n)  == [t |-> "number",    n |-> n, b |-> FALSE, q |-> <<>>]
JBool(b) == [t |-> "boolean",   n |-> 0, b |-> b,     q |-> <<>>]
JArr(q)  == [t |-> "array",     n |-> 0, b |-> FALSE, q |-> q]
JNull    == [t |-> "null",      n |-> 0, b |-> FALSE, q |-> <<>>]
JStr     == [t |-> "string",    n |-> 0, b |-> FALSE, q |-> <<>>]
JObj     == [t |-> "object",    n |-> 0, b |-> FALSE, q |-> <<>>]
\* no hook of that key is mounted
JUndef   == [t |-> "undefined", n |-> 0, b |-> FALSE, q |-> <<>>]

\* JavaScript truthiness (JStr is a non-empty string)
Truthy(v) ==
    CASE v.t = "number"  -> v.n # 0
      [] v.t = "boolean" -> v.b
      [] v.t \in {"null", "undefined"} -> FALSE
      [] OTHER -> TRUE

\* A raw item of localStorage: no item, text JSON.parse rejects (or the empty
\* text), or the JSON text of a value.
Absent      == [kind |-> "absent", v |-> JNull]
Unparsable  == [kind |-> "text",   v |-> JNull]
JsonText(v) == [kind |-> "json",   v |-> v]

\* JSON.stringify of the values the page writes: numbers (finite in the model),
\* booleans and arrays of Quote; undefined has no JSON text.
Stringify(v) == IF v.t = "undefined" THEN Unparsable ELSE JsonText(v)

\* the initialValue each hook is given
InitialValue(key) ==
    CASE key = "startingFee"            -> JNum(0)
      [] key = "pricePerCubicFoot"      -> JNum(10)
      [] key = "taxRate"                -> JNum(0)
      [] key = "showTaxCalculator"      -> JBool(FALSE)
      [] key = "showDiscount"           -> JBool(FALSE)
      [] key = "defaultDiscountPercent" -> JNum(0)
      [] key = "quoteHistory"           -> JArr(<<>>)
      [] key = "hasCompletedOnboarding" -> JBool(FALSE)

\* useLocalStorage's initializer: item ? JSON.parse(item) : initialValue, and
\* initialValue when JSON.parse throws.
ReadSlot(item, initialValue) ==
    IF item.kind = "json" THEN item.v ELSE initialValue

-----------------------------------------------------------------------------
(* Text of the number inputs *)

\* what the user types into the measurement inputs (empty when cleared), a
\* settings input and the discount input of the calculator
CircumferenceInputs == {"", "2"}
HeightInputs        == {"", "3"}
SettingInputs       == {"5"}
DiscountInputs      == {"5"}

\* Number(text) for the texts above and for the texts Number.toString gives
Number(text) ==
    CASE text = ""   -> 0
      [] text = "-1" -> -1
      [] text = "0"  -> 0
      [] text = "1"  -> 1
      [] text = "2"  -> 2
      [] text = "3"  -> 3
      [] text = "5"  -> 5
      [] text = "10" -> 10

\* value.toString() of a loaded value.  null.toString() throws: see RenderThrows.
toString(v) ==
    CASE v.t = "number"  -> (CHOOSE text \in {"-1", "0", "1", "2", "3", "5", "10"} : Number(text) = v.n)
      [] v.t = "boolean" -> IF v.b THEN "true" ELSE "false"
      [] v.t = "string"  -> "abc"
      [] v.t = "object"  -> "[object Object]"
      [] v.t = "array"   -> IF v.q = <<>> THEN "" ELSE "[object Object]"

-----------------------------------------------------------------------------
(* Pricing: the computed values of CalculatorView *)

\* c * c * h, the volume of one tree times 12.56
VolumeTimesDivisor(c, h) == c * c * h

\* currentVolume * 12.56: the pending measurement counts when both fields exceed 0
CurrentVolume(circ, hgt) ==
    IF Number(circ) > 0 /\ Number(hgt) > 0
    THEN VolumeTimesDivisor(Number(circ), Number(hgt))
    ELSE 0

RECURSIVE TreesVolume(_)
\* trees.reduce(...): the sum of the volumes of the listed trees, times 12.56
TreesVolume(ts) ==
    IF ts = <<>> THEN 0
    ELSE VolumeTimesDivisor(Head(ts).circumference, Head(ts).height) + TreesVolume(Tail(ts))

\* totalVolume * 12.56
TotalVolume(ts, circ, hgt) == TreesVolume(ts) + CurrentVolume(circ, hgt)

\* (volume * pricePerCubicFoot) + startingFee, as an amount over Denominator,
\* of a volume given times 12.56
SubtotalOf(volume, price, fee) ==
    volume * price * ((100 * Denominator) \div VolumeDivisorHundredths) + fee * Denominator


\* showDiscount ? subtotal * (Number(discountPercent) / 100) : 0
DiscountAmountOf(subtotal, show, percent) ==
    IF show THEN (subtotal \div 100) * percent ELSE 0

TaxAmountNoToggle(taxable, show, rate) == (taxable \div 100) * rate

\* showTax ? taxableAmount * (taxRate / 100) : 0
TaxAmountOf(taxable, show, rate) ==
    IF show THEN (taxable \div 100) * rate ELSE 0

\* subtotal, discountAmount, taxAmount and total of a render of CalculatorView
Breakdown(m, ts, circ, hgt, pct) ==
    LET subtotal       == SubtotalOf(TotalVolume(ts, circ, hgt),
                                     m["pricePerCubicFoot"].n, m["startingFee"].n)
        discountAmount == DiscountAmountOf(subtotal, Truthy(m["showDiscount"]), Number(pct))
        taxableAmount  == subtotal - discountAmount
        taxAmount      == TaxAmountOf(taxableAmount, Truthy(m["showTaxCalculator"]),
                                      m["taxRate"].n)
    IN  [subtotal |-> subtotal, discountAmount |-> discountAmount,
         taxAmount |-> taxAmount, total |-> taxableAmount + taxAmount]

-----------------------------------------------------------------------------
(* Views and their hooks *)

SettingKeys == {"startingFee", "pricePerCubicFoot", "taxRate", "showTaxCalculator",
                "showDiscount", "defaultDiscountPercent"}

\* the useLocalStorage hooks a view mounts.  SettingsView also mounts a hook of
\* hasCompletedOnboarding; it is only ever written, right before a reload.
Hooks(view) ==
    CASE view = "calculator" -> SettingKeys \cup {"quoteHistory"}
      [] view = "history"    -> {"quoteHistory"}
      [] view = "settings"   -> SettingKeys
      [] OTHER               -> {}

\* the hooks after `view` is mounted over `store`; app is the value of App's hook
Mount(view, store, app) ==
    [k \in Keys |->
        IF k = "hasCompletedOnboarding" THEN app
        ELSE IF k \in Hooks(view) THEN ReadSlot(store[k], InitialValue(k))
        ELSE JUndef]

\* the first render of a view throws: defaultDiscount.toString() and
\* startingFee.toFixed(2) in CalculatorView, history.length / history.map in
\* HistoryView
RenderThrows(view, m) ==
    CASE view = "calculator" -> \/ m["defaultDiscountPercent"].t = "null"
                                \/ m["startingFee"].t # "number"
      [] view = "history"    -> m["quoteHistory"].t # "array"
      [] OTHER               -> FALSE

\* what App shows: the onboarding screen until hasCompletedOnboarding is truthy
ViewOf(app, tab) == IF Truthy(app) THEN tab ELSE "onboarding"

\* the page after App renders `tab` over `store` with a freshly mounted view
Shown(tab, store, app) ==
    LET view == ViewOf(app, tab)
        m    == Mount(view, store, app)
        bad  == RenderThrows(view, m)
    IN  [mem |-> m, crashed |-> bad,
         discountPercent |-> IF view = "calculator" /\ ~bad
                             THEN toString(m["defaultDiscountPercent"]) ELSE ""]

\* the view on screen
View == IF crashed THEN "crashed" ELSE ViewOf(mem["hasCompletedOnboarding"], activeTab)

NoCall == [op |-> "none", id |-> 0, yes |-> FALSE]
Call(op) == [op |-> op, id |-> 0, yes |-> FALSE]

\* a page load over `store`
Boot(store) ==
    LET page == Shown("calculator", store,
                      ReadSlot(store["hasCompletedOnboarding"],
                               InitialValue("hasCompletedOnboarding")))
    IN  /\ storage = store
        /\ mem = page.mem
        /\ crashed = page.crashed
        /\ discountPercent = page.discountPercent
        /\ activeTab = "calculator"
        /\ circumference = "" /\ height = "" /\ trees = <<>>
        /\ called = NoCall
        /\ nextId = 1 /\ now = 0 /\ edits = 0 /\ failures = 0

\* a first visit: localStorage holds nothing
Init == Boot([k \in Keys |-> Absent])

\* a view is mounted afresh over the storage as this step leaves it
Remount(tab, app) ==
    LET page == Shown(tab, storage', app)
    IN  /\ mem' = page.mem
        /\ crashed' = page.crashed
        /\ discountPercent' = page.discountPercent
        /\ circumference' = "" /\ height' = "" /\ trees' = <<>>

\* localStorage.setItem(key, JSON.stringify(value)), which may throw
Write(key, value, ok) ==
    /\ ok \/ failures < MaxFailures
    /\ storage' = IF ok THEN [storage EXCEPT ![key] = Stringify(value)] ELSE storage
    /\ failures' = IF ok THEN failures ELSE failures + 1

\* setValue of the hook of `key`: the state is set, then the slot is written;
\* an exception of setItem (ok = FALSE) is caught and logged
SetValue(key, value, ok) ==
    /\ mem' = [mem EXCEPT ![key] = value]
    /\ Write(key, value, ok)

-----------------------------------------------------------------------------
(* App *)

\* OnboardingView's Get Started: setHasCompletedOnboarding(true); App then mounts
\* the calculator
CompleteOnboarding(ok) ==
    /\ View = "onboarding"
    /\ Write("hasCompletedOnboarding", JBool(TRUE), ok)
    /\ Remount(activeTab, JBool(TRUE))
    /\ called' = NoCall
    /\ UNCHANGED <<activeTab, nextId, now, edits>>

\* a tab button: setActiveTab(tab); the view of the old tab is unmounted and
\* the view of the new one mounted (React keeps the view when the tab is the same)
SetActiveTab(tab) ==
    /\ View \in {"calculator", "history", "settings"}
    /\ tab # activeTab
    /\ activeTab' = tab
    /\ storage' = storage
    /\ Remount(tab, mem["hasCompletedOnboarding"])
    /\ called' = NoCall
    /\ UNCHANGED <<nextId, now, edits, failures>>

-----------------------------------------------------------------------------
(* CalculatorView *)

TreeItem(id, circ, hgt) ==
    [id |-> id, circumference |-> Number(circ), height |-> Number(hgt), notes |-> ""]

\* crypto.randomUUID() for a tree: an identifier no tree of the list has.  A
\* tree's identifier is only ever compared with those of the list it is in.
FreshTreeId(ts) ==
    CHOOSE id \in 1..(Len(ts) + 1) :
        /\ \A i \in 1..Len(ts) : ts[i].id # id
        /\ \A j \in 1..(id - 1) : \E i \in 1..Len(ts) : ts[i].id = j

\* onChange of the circumference input
SetCircumference(text) ==
    /\ View = "calculator"
    /\ circumference' = text
    /\ called' = NoCall
    /\ UNCHANGED <<storage, mem, activeTab, height, trees, discountPercent,
                   nextId, now, edits, failures, crashed>>

\* onChange of the height input
SetHeight(text) ==
    /\ View = "calculator"
    /\ height' = text
    /\ called' = NoCall
    /\ UNCHANGED <<storage, mem, activeTab, circumference, trees, discountPercent,
                   nextId, now, edits, failures, crashed>>

\* onChange of the discount input, which is rendered when showDiscount is set
SetDiscountPercent(text) ==
    /\ View = "calculator"
    /\ Truthy(mem["showDiscount"])
    /\ discountPercent' = text
    /\ called' = NoCall
    /\ UNCHANGED <<storage, mem, activeTab, circumference, height, trees,
                   nextId, now, edits, failures, crashed>>

\* addTree: the pending measurement joins the list and the inputs are cleared
AddTree ==
    /\ View = "calculator"
    /\ CurrentVolume(circumference, height) # 0
    /\ Len(trees) < MaxTrees
    /\ trees' = Append(trees, TreeItem(FreshTreeId(trees), circumference, height))
    /\ circumference' = ""
    /\ height' = ""
    /\ called' = NoCall
    /\ UNCHANGED <<storage, mem, activeTab, discountPercent, nextId, now, edits,
                   failures, crashed>>

\* trees.filter(t => t.id !== id)
RemoveTreeFilter(ts, id) == SelectSeq(ts, LAMBDA t : t.id # id)

\* removeTree(id), from the button of a listed tree
RemoveTree(id) ==
    /\ View = "calculator"
    /\ \E i \in 1..Len(trees) : trees[i].id = id
    /\ trees' = RemoveTreeFilter(trees, id)
    /\ called' = NoCall
    /\ UNCHANGED <<storage, mem, activeTab, circumference, height, discountPercent,
                   nextId, now, edits, failures, crashed>>

QuoteTreesUnchecked(ts, circ, hgt, treeId) ==
    IF Len(ts) > 0 THEN ts ELSE <<TreeItem(treeId, circ, hgt)>>

\* the trees of the quote being saved: the listed trees, else the pending
\* measurement alone when it is valid, else none
QuoteTrees(ts, circ, hgt, treeId) ==
    IF Len(ts) > 0 THEN ts
    ELSE IF CurrentVolume(circ, hgt) > 0 THEN <<TreeItem(treeId, circ, hgt)>>
    ELSE <<>>

\* the quote object saveQuote builds from the values of the current render;
\* date is the instant toISOString writes
NewQuote(m, ts, circ, hgt, pct, quoteId, treeId, date) ==
    LET b == Breakdown(m, ts, circ, hgt, pct)
    IN  [id |-> quoteId, date |-> date,
         subtotal |-> b.subtotal, taxAmount |-> b.taxAmount,
         discountAmount |-> b.discountAmount, total |-> b.total,
         trees |-> QuoteTrees(ts, circ, hgt, treeId)]

SaveRejectedNever(quote) == FALSE

\* if (quote.trees.length === 0) return
SaveRejected(quote) == Len(quote.trees) = 0

AppendQuote(quote, history) == history \o <<quote>>

PrependQuoteRepriced(quote, history) ==
    <<quote>> \o [i \in 1..Len(history) |-> [history[i] EXCEPT !.total = quote.total]]

\* [quote, ...history]
PrependQuote(quote, history) == <<quote>> \o history

SaveQuoteKeepsInputs(ok) ==
    /\ View = "calculator"
    /\ LET quote == NewQuote(mem, trees, circumference, height, discountPercent,
                             nextId, FreshTreeId(trees), now)
       IN  IF SaveRejected(quote)
           THEN UNCHANGED <<storage, mem, trees, nextId, now, failures>>
           ELSE /\ nextId <= MaxId
                /\ SetValue("quoteHistory",
                            JArr(PrependQuote(quote, mem["quoteHistory"].q)), ok)
                /\ trees' = <<>>
                /\ nextId' = nextId + 1
                /\ now' = now + 1
    /\ called' = Call("saveQuote")
    /\ UNCHANGED <<activeTab, circumference, height, discountPercent, edits, crashed>>

\* saveQuote.  The quote's identifier is fresh (quotes are numbered in the
\* order they are made) and its date is the reading of the clock, which has
\* advanced by the next save: alert() blocks until the user dismisses it.
SaveQuote(ok) ==
    /\ View = "calculator"
    /\ LET quote == NewQuote(mem, trees, circumference, height, discountPercent,
                             nextId, FreshTreeId(trees), now)
       IN  IF SaveRejected(quote)
           THEN UNCHANGED <<storage, mem, circumference, height, trees, nextId, now,
                            failures>>
           ELSE /\ nextId <= MaxId
                /\ SetValue("quoteHistory",
                            JArr(PrependQuote(quote, mem["quoteHistory"].q)), ok)
                /\ trees' = <<>>
                /\ circumference' = ""
                /\ height' = ""
                /\ nextId' = nextId + 1
                /\ now' = now + 1
    /\ called' = Call("saveQuote")
    /\ UNCHANGED <<activeTab, discountPercent, edits, crashed>>

-----------------------------------------------------------------------------
(* SettingsView *)

\* what every settings handler leaves alone; the edit is counted
SettingsEdit ==
    /\ called' = NoCall
    /\ edits' = edits + 1
    /\ UNCHANGED <<activeTab, circumference, height, trees, discountPercent,
                   nextId, now, crashed>>

\* onChange of Starting Fee: setStartingFee(Number(e.target.value))
SetStartingFee(text, ok) ==
    /\ View = "settings" /\ edits < MaxEdits
    /\ SetValue("startingFee", JNum(Number(text)), ok)
    /\ SettingsEdit

\* onChange of Price Per Cubic Foot
SetPricePerCubicFoot(text, ok) ==
    /\ View = "settings" /\ edits < MaxEdits
    /\ SetValue("pricePerCubicFoot", JNum(Number(text)), ok)
    /\ SettingsEdit

\* the tax switch: setShowTax(!showTax)
ToggleShowTax(ok) ==
    /\ View = "settings" /\ edits < MaxEdits
    /\ SetValue("showTaxCalculator", JBool(~Truthy(mem["showTaxCalculator"])), ok)
    /\ SettingsEdit

\* onChange of Tax Rate, which is rendered when showTax is set
SetTaxRate(text, ok) ==
    /\ View = "settings" /\ edits < MaxEdits
    /\ Truthy(mem["showTaxCalculator"])
    /\ SetValue("taxRate", JNum(Number(text)), ok)
    /\ SettingsEdit

\* the discount switch: setShowDiscount(!showDiscount)
ToggleShowDiscount(ok) ==
    /\ View = "settings" /\ edits < MaxEdits
    /\ SetValue("showDiscount", JBool(~Truthy(mem["showDiscount"])), ok)
    /\ SettingsEdit

\* onChange of Default Discount, which is rendered when showDiscount is set
SetDefaultDiscount(text, ok) ==
    /\ View = "settings" /\ edits < MaxEdits
    /\ Truthy(mem["showDiscount"])
    /\ SetValue("defaultDiscountPercent", JNum(Number(text)), ok)
    /\ SettingsEdit

\* resetOnboarding: setHasCompletedOnboarding(false) on SettingsView's own hook,
\* then window.location.reload()
ResetOnboarding(ok) ==
    /\ View = "settings"
    /\ Write("hasCompletedOnboarding", JBool(FALSE), ok)
    /\ LET page  == Shown("calculator", storage',
                          ReadSlot(storage'["hasCompletedOnboarding"],
                                   InitialValue("hasCompletedOnboarding")))
       IN  /\ mem' = page.mem
           /\ crashed' = page.crashed
           /\ discountPercent' = page.discountPercent
    /\ activeTab' = "calculator"
    /\ circumference' = "" /\ height' = "" /\ trees' = <<>>
    /\ called' = NoCall
    /\ UNCHANGED <<nextId, now, edits>>

-----------------------------------------------------------------------------
(* HistoryView *)

DeleteFilterFirst(history, id) == IF history = <<>> THEN <<>> ELSE Tail(history)

\* history.filter(h => h.id !== id)
DeleteFilter(history, id) == SelectSeq(history, LAMBDA h : h.id # id)

ConfirmIgnored(answer) == TRUE

\* if (confirm('Delete this quote?'))
Confirmed(answer) == answer

\* deleteQuote(id): the prompt is shown, and on "yes" the filtered list is set
DeleteQuote(id, answer, ok) ==
    /\ View = "history"
    /\ IF Confirmed(answer)
       THEN SetValue("quoteHistory", JArr(DeleteFilter(mem["quoteHistory"].q, id)), ok)
       ELSE UNCHANGED <<storage, mem, failures>>
    /\ called' = [op |-> "deleteQuote", id |-> id, yes |-> answer]
    /\ UNCHANGED <<activeTab, circumference, height, trees, discountPercent,
                   nextId, now, edits, crashed>>

-----------------------------------------------------------------------------
(* The page *)

Next ==
    \/ \E ok \in BOOLEAN : CompleteOnboarding(ok)
    \/ \E tab \in {"calculator", "history", "settings"} : SetActiveTab(tab)
    \/ \E text \in CircumferenceInputs : SetCircumference(text)
    \/ \E text \in HeightInputs : SetHeight(text)
    \/ \E text \in DiscountInputs : SetDiscountPercent(text)
    \/ AddTree
    \/ \E id \in 1..MaxId : RemoveTree(id)
    \/ \E ok \in BOOLEAN : SaveQuote(ok)
    \/ \E text \in SettingInputs, ok \in BOOLEAN : SetStartingFee(text, ok)
    \/ \E text \in SettingInputs, ok \in BOOLEAN : SetPricePerCubicFoot(text, ok)
    \/ \E ok \in BOOLEAN : ToggleShowTax(ok)
    \/ \E text \in SettingInputs, ok \in BOOLEAN : SetTaxRate(text, ok)
    \/ \E ok \in BOOLEAN : ToggleShowDiscount(ok)
    \/ \E text \in SettingInputs, ok \in BOOLEAN : SetDefaultDiscount(text, ok)
    \/ \E ok \in BOOLEAN : ResetOnboarding(ok)
    \/ \E id \in 1..MaxId, answer \in BOOLEAN, ok \in BOOLEAN : DeleteQuote(id, answer, ok)

Spec == Init /\ [][Next]_vars

-----------------------------------------------------------------------------
(* Loading the page over any content of localStorage *)

\* a quote as a first visit's calculator saves it from the measurement 2 x 3
SampleQuote ==
    NewQuote(Mount("calculator", [k \in Keys |-> Absent], JBool(TRUE)),
             <<>>, "2", "3", "0", 1, 1, 0)

\* what a slot may hold: nothing, text that is no JSON, or the JSON text of
\* null, a number, a boolean, a string, an object or an array of quotes
RawValues ==
    {Absent, Unparsable} \cup
    {JsonText(v) : v \in {JNull, JNum(0), JNum(5), JBool(TRUE), JBool(FALSE), JStr, JObj,
                          JArr(<<>>), JArr(<<SampleQuote>>)}}

\* the page is loaded over a storage in which up to two slots hold anything
LoadInit ==
    \E k1 \in Keys, k2 \in Keys, r1 \in RawValues, r2 \in RawValues :
        Boot([k \in Keys |-> IF k = k1 THEN r1 ELSE IF k = k2 THEN r2 ELSE Absent])

\* the views are mounted in turn; no other handler runs
LoadNext ==
    \/ \E ok \in BOOLEAN : CompleteOnboarding(ok)
    \/ \E tab \in {"calculator", "history", "settings"} : SetActiveTab(tab)

LoadSpec == LoadInit /\ [][LoadNext]_vars

-----------------------------------------------------------------------------
(* Properties *)

\* the History the mounted view holds, and the History the slot holds
MemHistory    == mem["quoteHistory"].q
StoredHistory == ReadSlot(storage["quoteHistory"], InitialValue("quoteHistory")).q

Quotes(history)   == {history[i] : i \in 1..Len(history)}
QuoteIds(history) == {history[i].id : i \in 1..Len(history)}

\* the composition holds no tree: none is listed and the pending measurement
\* does not have both fields above 0
EmptyComposition ==
    /\ trees = <<>>
    /\ ~(Number(circumference) > 0 /\ Number(height) > 0)

\* this step ran saveQuote, and saveQuote made a quote
SaveStep  == View = "calculator" /\ called'.op = "saveQuote"
SavedStep == SaveStep /\ Len(MemHistory') = Len(MemHistory) + 1

\* C1: a saveQuote invoked on an empty composition creates no quote and changes
\* nothing: the History in memory, the quoteHistory slot (and every other slot),
\* the tree list and the pending inputs are as before.
C1_EmptySaveChangesNothing ==
    [][(SaveStep /\ EmptyComposition) =>
          /\ mem' = mem
          /\ storage' = storage
          /\ trees' = trees
          /\ circumference' = circumference
          /\ height' = height
          /\ discountPercent' = discountPercent]_vars

\* saveQuote has just run on a half-typed measurement, and still nothing is saved
C1_Witness ==
    /\ View = "calculator"
    /\ called.op = "saveQuote"
    /\ circumference = "2" /\ height = "" /\ trees = <<>>
    /\ MemHistory = <<>>
    /\ storage["quoteHistory"] = Absent

\* C2: every Quote of the History, in memory and in the quoteHistory slot, has
\* at least one tree.
C2_QuotesHaveTrees ==
    \A q \in Quotes(MemHistory) \cup Quotes(StoredHistory) : Len(q.trees) >= 1

\* two quotes of one tree each are in the History, in memory and in the slot
C2_Witness ==
    /\ Len(MemHistory) = 2
    /\ StoredHistory = MemHistory
    /\ \A q \in Quotes(MemHistory) : Len(q.trees) = 1

\* the breakdown the formulas give for the trees a quote stores, under a configuration
BreakdownOfTrees(m, ts, pct) == Breakdown(m, ts, "", "", pct)

\* C3: a Quote stores the breakdown of the trees it stores: its subtotal is the
\* sum of the volumes of its trees times pricePerCubicFoot plus startingFee,
\* under the configuration in force at the save, and its discountAmount,
\* taxAmount and total follow from that subtotal.
C3_BreakdownOfStoredTrees ==
    [][SavedStep =>
          LET q == Head(MemHistory')
              b == BreakdownOfTrees(mem, q.trees, discountPercent)
          IN  /\ q.subtotal = b.subtotal
              /\ q.discountAmount = b.discountAmount
              /\ q.taxAmount = b.taxAmount
              /\ q.total = b.total]_vars

\* C4: the History is most-recent-first.  Quotes are numbered in the order they
\* are saved, so the quote saved later has the larger id: in memory and in the
\* slot the ids fall strictly along the History, and a save that makes a quote
\* puts it in front of the History as it was.
C4_MostRecentFirst ==
    /\ [](\A history \in {MemHistory, StoredHistory} :
            \A i \in 1..Len(history), j \in 1..Len(history) :
                i < j => history[i].id > history[j].id)
    /\ [][SavedStep =>
            /\ Head(MemHistory').id = nextId
            /\ Tail(MemHistory') = MemHistory]_vars

\* a second quote has just been saved in front of the first
C4_Witness ==
    /\ View = "calculator"
    /\ called.op = "saveQuote"
    /\ Len(MemHistory) = 2
    /\ MemHistory[1].id = 2 /\ MemHistory[2].id = 1
    /\ StoredHistory = MemHistory

\* C5: a saved Quote is never mutated.  In every step, a quote of the History
\* (in memory or in the slot) whose id is still in the History afterwards (in
\* memory or in the slot) is there with every field as it was; and no step
\* taken in the settings view changes the quoteHistory slot.
C5_QuotesImmutable ==
    [][/\ \A q \in Quotes(MemHistory) \cup Quotes(StoredHistory) :
            \A r \in Quotes(MemHistory') \cup Quotes(StoredHistory') :
                r.id = q.id => r = q
       /\ View = "settings" => storage'["quoteHistory"] = storage["quoteHistory"]]_vars

\* a quote was saved, the settings were then edited three times, and the
\* calculator, mounted again, holds the quote
C5_Witness ==
    /\ View = "calculator"
    /\ edits = 3
    /\ mem["startingFee"].n = 5
    /\ mem["pricePerCubicFoot"].n = 5
    /\ Truthy(mem["showTaxCalculator"])
    /\ Len(MemHistory) = 1
    /\ MemHistory[1].total = SubtotalOf(VolumeTimesDivisor(2, 3), 10, 0)
    /\ StoredHistory = MemHistory

\* history[a], history[b], ... in their order: `kept` is `history` with entries left out
IsSubsequence(kept, history) ==
    /\ \A i \in 1..Len(kept) : kept[i] \in Quotes(history)
    /\ \A i \in 1..Len(kept), j \in 1..Len(kept) :
          i < j => \E a \in 1..Len(history), b \in 1..Len(history) :
                      a < b /\ history[a] = kept[i] /\ history[b] = kept[j]

\* this step ran deleteQuote(id) and the prompt answered "yes"
ConfirmedDeleteStep == View = "history" /\ called'.op = "deleteQuote" /\ called'.yes

C8_TogglesGateAmounts ==
    /\ [](View = "calculator" =>
            LET b == Breakdown(mem, trees, circumference, height, discountPercent) IN
            /\ ~Truthy(mem["showTaxCalculator"]) => b.taxAmount = 0
            /\ ~Truthy(mem["showDiscount"]) => b.discountAmount = 0
            /\ b.total = b.subtotal - b.discountAmount + b.taxAmount)
    /\ [](\A q \in Quotes(MemHistory) \cup Quotes(StoredHistory) :
            q.total = q.subtotal - q.discountAmount + q.taxAmount)
    /\ [][SavedStep =>
            LET q == Head(MemHistory') IN
            /\ ~Truthy(mem["showTaxCalculator"]) => q.taxAmount = 0
            /\ ~Truthy(mem["showDiscount"]) => q.discountAmount = 0]_vars

\* a quote was saved with the tax switched off over a stored rate of 5 percent
C8_Witness ==
    /\ View = "calculator"
    /\ called.op = "saveQuote"
    /\ ~Truthy(mem["showTaxCalculator"])
    /\ mem["taxRate"].n = 5
    /\ Len(MemHistory) = 1
    /\ MemHistory[1].subtotal > 0
    /\ MemHistory[1].taxAmount = 0

\* the type the slot of a key is documented to hold
SlotType(key) ==
    CASE key \in {"startingFee", "pricePerCubicFoot", "taxRate", "defaultDiscountPercent"}
           -> "number"
      [] key \in {"showTaxCalculator", "showDiscount", "hasCompletedOnboarding"}
           -> "boolean"
      [] key = "quoteHistory" -> "array"

\* the hooks the view on screen has loaded
LoadedKeys == Hooks(ViewOf(mem["hasCompletedOnboarding"], activeTab))

\* C9: a load tolerates any content of a slot.  The value a hook hands to its
\* view is the value the slot holds when that is JSON of the key's type, and
\* else the default of the key; it is never of another type.
C9_LoadGivesTypedValueOrDefault ==
    \A key \in LoadedKeys :
        /\ mem[key].t = SlotType(key)
        /\ mem[key] = IF storage[key].kind = "json" /\ storage[key].v.t = SlotType(key)
                      THEN storage[key].v
                      ELSE InitialValue(key)

\* C10: the History a view holds is the History the slot holds, in the
\* calculator and in the history view, also after a rejected write.
C10_ViewHistoryIsStoredHistory ==
    View \in {"calculator", "history"} => MemHistory = StoredHistory

\* C11 as stated: a quote is produced only by a save taken with at least one
\* tree in the tree list, a save taken with an empty tree list produces none,
\* and a save that produces a quote leaves the tree list empty and the pending
\* circumference and height cleared.
C11_SaveOnlyWithListedTree ==
    [][SavedStep =>
          /\ trees # <<>>
          /\ trees' = <<>>
          /\ circumference' = ""
          /\ height' = ""]_vars

\* C11, amended: a quote enters the History only in a step of saveQuote, and
\* saveQuote produces one only from a composition that holds a tree: one in the
\* tree list, or a pending measurement with both fields above 0; on an empty
\* composition it produces none.  A save that produces a quote leaves the tree
\* list empty and the pending circumference and height cleared.
C11_SaveOnlyFromNonEmptyComposition ==
    [][/\ (QuoteIds(StoredHistory') \ QuoteIds(StoredHistory) # {}) => SavedStep
       /\ (View = "calculator" /\ View' = "calculator"
             /\ QuoteIds(MemHistory') \ QuoteIds(MemHistory) # {}) => SavedStep
       /\ SavedStep => ~EmptyComposition
       /\ SavedStep =>
             /\ trees' = <<>>
             /\ circumference' = ""
             /\ height' = ""]_vars

\* on a first visit a quote has just been saved and the composition is empty again
C11_Witness ==
    /\ View = "calculator"
    /\ called.op = "saveQuote"
    /\ edits = 0
    /\ Len(MemHistory) = 1
    /\ Len(MemHistory[1].trees) = 1
    /\ StoredHistory = MemHistory
    /\ trees = <<>> /\ circumference = "" /\ height = ""

====
